---- MODULE Spec2Model ----
(***************************************************************************)
(* amesh-iptables (cmd/iptables/main.go): derivation of the iptables rule  *)
(* sequence from the port flags, and its submission to the execution       *)
(* backend.                                                                *)
(*                                                                         *)
(* A Go string is a sequence of symbols.  The value of a port flag is a    *)
(* sequence of single characters, so that strings.Split sees every comma.  *)
(* A string constant of the program that holds no character of a port flag *)
(* is written as one symbol: Lit("RETURN") is the Go string "RETURN".      *)
(***************************************************************************)
EXTENDS Integers, Sequences, FiniteSets, TLC

VARIABLES cfg, dep, rules, commands, idx, submitted, pc, splitIn, splitOut, splitJoined, splitAgain

vars == <<cfg, dep, rules, commands, idx, submitted, pc, splitIn, splitOut, splitJoined, splitAgain>>

splitVars == <<splitIn, splitOut, splitJoined, splitAgain>>

(***************************************************************************)
(* Bounds.                                                                 *)
(***************************************************************************)
\* total number of characters over the four port flags of one run
MaxTotal == 4
\* length of the strings handed to split on its own
MaxSplitLen == 4
\* total number of characters over the four port flags when run is called directly
MaxEngineTotal == 2

Lit(s) == <<s>>

EmptyString == << >>
Wildcard == <<"*">>
Comma == ","
PortChars == {",", "*", "8"}

Strs(n) == UNION {[1..k -> PortChars] : k \in 0..n}

(***************************************************************************)
(* Chain names, main.go:29-35.                                             *)
(***************************************************************************)
InboundChain == Lit("APISIX_INBOUND")
RedirectChain == Lit("APISIX_REDIRECT")
InboundRedirectChain == Lit("APISIX_INBOUND_REDIRECT")
OutputChain == Lit("OUTPUT")
PreRoutingChain == Lit("PREROUTING")

Nat_ == Lit("nat")
SSHPort == <<"2", "2">>

(***************************************************************************)
(* Flag defaults, main.go:89-90, and the account user.Lookup resolves.     *)
(***************************************************************************)
DefaultInboundCapturePort == <<"9", "0", "8", "1">>
DefaultProxyPort == <<"9", "0", "8", "0">>
PasswdUsers == {[Uid |-> <<"1", "0", "0">>, Gid |-> <<"1", "0", "0">>]}

(***************************************************************************)
(* strings.Split(s, ","): the pieces between the commas, the empty ones    *)
(* included; n commas give n+1 pieces.                                     *)
(***************************************************************************)
RECURSIVE SplitFrom(_, _, _)
SplitFrom(s, i, cur) ==
    IF i > Len(s) THEN <<cur>>
    ELSE IF s[i] = Comma THEN <<cur>> \o SplitFrom(s, i + 1, << >>)
    ELSE SplitFrom(s, i + 1, Append(cur, s[i]))

StringsSplit(s) == SplitFrom(s, 1, << >>)

\* filterEmpty without its "continue": the empty pieces stay
filterEmpty_KeepsEmpty(strs) == strs

\* main.go:193-202
RECURSIVE filterEmpty(_)
filterEmpty(strs) ==
    IF strs = << >> THEN << >>
    ELSE IF Head(strs) = EmptyString THEN filterEmpty(Tail(strs))
    ELSE <<Head(strs)>> \o filterEmpty(Tail(strs))

\* main.go:186-191
split(s) == IF s = EmptyString THEN << >> ELSE filterEmpty(StringsSplit(s))

\* strings.Join(strs, ",")
RECURSIVE Join(_)
Join(strs) ==
    IF strs = << >> THEN EmptyString
    ELSE IF Len(strs) = 1 THEN Head(strs)
    ELSE Head(strs) \o <<Comma>> \o Join(Tail(strs))

(***************************************************************************)
(* The rule builder: an append-only list of rule insertions, realised as   *)
(* one command per insertion, in the order of the appends.                 *)
(***************************************************************************)
AppendRuleV4(rs, chain, table, params) ==
    Append(rs, [chain |-> chain, table |-> table, params |-> params])

RECURSIVE BuildV4(_)
BuildV4(rs) ==
    IF rs = << >> THEN << >>
    ELSE << <<Lit("iptables"), Lit("-t"), Head(rs).table, Lit("-A"), Head(rs).chain>>
              \o Head(rs).params >> \o BuildV4(Tail(rs))

\* append a list of rules, each <<chain, params>>, in order
RECURSIVE AppendAll(_, _)
AppendAll(rs, new) ==
    IF new = << >> THEN rs
    ELSE AppendAll(AppendRuleV4(rs, Head(new)[1], Nat_, Head(new)[2]), Tail(new))

(***************************************************************************)
(* The rules each phase of run appends, as <<chain, params>> pairs.        *)
(***************************************************************************)
\* main.go:104-110
BaselineRules(c) ==
    << <<RedirectChain,
         <<Lit("-p"), Lit("tcp"), Lit("-j"), Lit("REDIRECT"), Lit("--to-ports"), c.ProxyPort>> >>,
       <<InboundRedirectChain,
         <<Lit("-p"), Lit("tcp"), Lit("-j"), Lit("REDIRECT"), Lit("--to-ports"),
           c.InboundCapturePort>> >> >>

\* insertSkipRules with its two appends exchanged
SkipRules_GidFirst(c) ==
    << <<OutputChain,
         <<Lit("-m"), Lit("owner"), Lit("--gid-owner"), c.ProxyGID, Lit("-j"),
           Lit("RETURN")>> >>,
       <<OutputChain,
         <<Lit("-o"), Lit("lo"), Lit("!"), Lit("-d"), Lit("127.0.0.1/32"), Lit("-m"),
           Lit("owner"), Lit("--uid-owner"), c.ProxyUID, Lit("-j"), Lit("RETURN")>> >> >>

\* main.go:168-173
SkipRules(c) ==
    << <<OutputChain,
         <<Lit("-o"), Lit("lo"), Lit("!"), Lit("-d"), Lit("127.0.0.1/32"), Lit("-m"),
           Lit("owner"), Lit("--uid-owner"), c.ProxyUID, Lit("-j"), Lit("RETURN")>> >>,
       <<OutputChain,
         <<Lit("-m"), Lit("owner"), Lit("--gid-owner"), c.ProxyGID, Lit("-j"),
           Lit("RETURN")>> >> >>

DportRule(chain, port, target) ==
    <<chain, <<Lit("-p"), Lit("tcp"), Lit("--dport"), port, Lit("-j"), target>> >>

JumpRule(chain, target) ==
    <<chain, <<Lit("-p"), Lit("tcp"), Lit("-j"), target>> >>

\* one rule per port, in the order of the list
RECURSIVE DportRules(_, _, _)
DportRules(chain, ports, target) ==
    IF ports = << >> THEN << >>
    ELSE <<DportRule(chain, Head(ports), target)>> \o DportRules(chain, Tail(ports), target)

\* insertInboundRules with the port-22 exemption appended after the excludes
InboundRules_SSHAfterExcludes(c) ==
    IF c.InboundPortsInclude = EmptyString THEN << >>
    ELSE <<JumpRule(PreRoutingChain, InboundChain)>> \o
         IF c.InboundPortsInclude = Wildcard
         THEN (IF c.InboundPortsExclude # EmptyString
               THEN DportRules(InboundChain, split(c.InboundPortsExclude), Lit("RETURN"))
               ELSE << >>) \o
              <<DportRule(InboundChain, SSHPort, Lit("RETURN"))>> \o
              <<JumpRule(InboundChain, InboundRedirectChain)>>
         ELSE DportRules(InboundChain, split(c.InboundPortsInclude), InboundRedirectChain)

\* insertInboundRules with the catch-all jump appended on the explicit path as well
InboundRules_CatchAllOnExplicit(c) ==
    IF c.InboundPortsInclude = EmptyString THEN << >>
    ELSE <<JumpRule(PreRoutingChain, InboundChain)>> \o
         IF c.InboundPortsInclude = Wildcard
         THEN <<DportRule(InboundChain, SSHPort, Lit("RETURN"))>> \o
              (IF c.InboundPortsExclude # EmptyString
               THEN DportRules(InboundChain, split(c.InboundPortsExclude), Lit("RETURN"))
               ELSE << >>) \o
              <<JumpRule(InboundChain, InboundRedirectChain)>>
         ELSE DportRules(InboundChain, split(c.InboundPortsInclude), InboundRedirectChain) \o
              <<JumpRule(InboundChain, InboundRedirectChain)>>

\* insertInboundRules reading the exclude list on the explicit path as well
InboundRules_ExcludeOnExplicit(c) ==
    IF c.InboundPortsInclude = EmptyString THEN << >>
    ELSE <<JumpRule(PreRoutingChain, InboundChain)>> \o
         IF c.InboundPortsInclude = Wildcard
         THEN <<DportRule(InboundChain, SSHPort, Lit("RETURN"))>> \o
              (IF c.InboundPortsExclude # EmptyString
               THEN DportRules(InboundChain, split(c.InboundPortsExclude), Lit("RETURN"))
               ELSE << >>) \o
              <<JumpRule(InboundChain, InboundRedirectChain)>>
         ELSE DportRules(InboundChain, split(c.InboundPortsExclude), Lit("RETURN")) \o
              DportRules(InboundChain, split(c.InboundPortsInclude), InboundRedirectChain)

\* main.go:119-141
InboundRules(c) ==
    IF c.InboundPortsInclude = EmptyString THEN << >>
    ELSE <<JumpRule(PreRoutingChain, InboundChain)>> \o
         IF c.InboundPortsInclude = Wildcard
         THEN <<DportRule(InboundChain, SSHPort, Lit("RETURN"))>> \o
              (IF c.InboundPortsExclude # EmptyString
               THEN DportRules(InboundChain, split(c.InboundPortsExclude), Lit("RETURN"))
               ELSE << >>) \o
              <<JumpRule(InboundChain, InboundRedirectChain)>>
         ELSE DportRules(InboundChain, split(c.InboundPortsInclude), InboundRedirectChain)

\* insertOutboundRules with the catch-all jump appended before the excludes
OutboundRules_CatchAllFirst(c) ==
    IF c.OutboundPortsInclude = EmptyString THEN << >>
    ELSE IF c.OutboundPortsInclude = Wildcard
         THEN <<JumpRule(OutputChain, RedirectChain)>> \o
              (IF c.OutboundPortsExclude # EmptyString
               THEN DportRules(OutputChain, split(c.OutboundPortsExclude), Lit("RETURN"))
               ELSE << >>)
         ELSE DportRules(OutputChain, split(c.OutboundPortsInclude), RedirectChain)

\* main.go:143-166
OutboundRules(c) ==
    IF c.OutboundPortsInclude = EmptyString THEN << >>
    ELSE IF c.OutboundPortsInclude = Wildcard
         THEN (IF c.OutboundPortsExclude # EmptyString
               THEN DportRules(OutputChain, split(c.OutboundPortsExclude), Lit("RETURN"))
               ELSE << >>) \o
              <<JumpRule(OutputChain, RedirectChain)>>
         ELSE DportRules(OutputChain, split(c.OutboundPortsInclude), RedirectChain)

(***************************************************************************)
(* run, main.go:103-117: the baseline rules, then the phases in this order. *)
(***************************************************************************)
\* run with insertSkipRules called after the capture rules
RunOrder_SkipRulesLast ==
    <<"run", "insertInboundRules", "insertOutboundRules", "insertSkipRules", "executeCommand">>

RunOrder ==
    <<"run", "insertSkipRules", "insertInboundRules", "insertOutboundRules", "executeCommand">>

NextPhase(p) == RunOrder[(CHOOSE i \in 1..Len(RunOrder) : RunOrder[i] = p) + 1]

PhaseRules(p, c) ==
    CASE p = "run" -> BaselineRules(c)
      [] p = "insertSkipRules" -> SkipRules(c)
      [] p = "insertInboundRules" -> InboundRules(c)
      [] p = "insertOutboundRules" -> OutboundRules(c)
      [] OTHER -> << >>

\* the rule insertions of one whole run on configuration c
RECURSIVE DeriveFrom(_, _, _)
DeriveFrom(c, k, rs) ==
    IF k > Len(RunOrder) THEN rs
    ELSE DeriveFrom(c, k + 1, AppendAll(rs, PhaseRules(RunOrder[k], c)))

Derive(c) == DeriveFrom(c, 1, << >>)

(***************************************************************************)
(* State.                                                                  *)
(***************************************************************************)
NoSplit == <<"-">>

Flags(ii, ie, oi, oe, dry) ==
    [InboundCapturePort |-> DefaultInboundCapturePort,
     ProxyPort |-> DefaultProxyPort,
     InboundPortsInclude |-> ii,
     InboundPortsExclude |-> ie,
     OutboundPortsInclude |-> oi,
     OutboundPortsExclude |-> oe,
     DryRun |-> dry,
     ProxyUID |-> EmptyString,
     ProxyGID |-> EmptyString]

\* spec.md section 8, end-to-end scenarios A and B
ScenarioA(dry) == Flags(Wildcard, <<"9", "0", "8", "1">>, EmptyString, EmptyString, dry)
ScenarioB(dry) == Flags(EmptyString, EmptyString, <<"8", "0">>, EmptyString, dry)

Idle ==
    /\ rules = << >>
    /\ commands = << >>
    /\ idx = 0
    /\ submitted = << >>

NoSplitCall ==
    /\ splitIn = NoSplit
    /\ splitOut = << >>
    /\ splitJoined = NoSplit
    /\ splitAgain = << >>

\* the process after flag parsing, main.go:87-98
Init ==
    /\ \/ \E a \in Strs(MaxTotal) :
          \E b \in Strs(MaxTotal - Len(a)) :
          \E c \in Strs(MaxTotal - Len(a) - Len(b)) :
          \E d \in Strs(MaxTotal - Len(a) - Len(b) - Len(c)) :
          \E dry \in BOOLEAN :
             cfg = Flags(a, b, c, d, dry)
       \/ \E dry \in BOOLEAN : cfg \in {ScenarioA(dry), ScenarioB(dry)}
    /\ dep = "none"
    /\ Idle
    /\ pc = "Run"
    /\ NoSplitCall

\* the branches of the DryRun test exchanged
Backend_Inverted(c) == IF c.DryRun THEN "real" ELSE "stdout"

Backend(c) == IF c.DryRun THEN "stdout" ELSE "real"

\* main.go:62-83, user.Lookup succeeds
Run ==
    /\ pc = "Run"
    /\ \E usr \in PasswdUsers :
          cfg' = [cfg EXCEPT !.ProxyUID = usr.Uid, !.ProxyGID = usr.Gid]
    /\ dep' = Backend(cfg)
    /\ pc' = RunOrder[1]
    /\ UNCHANGED <<rules, commands, idx, submitted, splitVars>>

\* main.go:70-73, user.Lookup fails
RunLookupErr ==
    /\ pc = "Run"
    /\ dep' = Backend(cfg)
    /\ pc' = "panic"
    /\ UNCHANGED <<cfg, rules, commands, idx, submitted, splitVars>>

\* main.go:103-110
run ==
    /\ pc = "run"
    /\ rules' = AppendAll(rules, PhaseRules("run", cfg))
    /\ pc' = NextPhase("run")
    /\ UNCHANGED <<cfg, dep, commands, idx, submitted, splitVars>>

\* main.go:113, 168-173
insertSkipRules ==
    /\ pc = "insertSkipRules"
    /\ rules' = AppendAll(rules, PhaseRules("insertSkipRules", cfg))
    /\ pc' = NextPhase("insertSkipRules")
    /\ UNCHANGED <<cfg, dep, commands, idx, submitted, splitVars>>

\* main.go:114, 119-141
insertInboundRules ==
    /\ pc = "insertInboundRules"
    /\ rules' = AppendAll(rules, PhaseRules("insertInboundRules", cfg))
    /\ pc' = NextPhase("insertInboundRules")
    /\ UNCHANGED <<cfg, dep, commands, idx, submitted, splitVars>>

\* main.go:115, 143-166
insertOutboundRules ==
    /\ pc = "insertOutboundRules"
    /\ rules' = AppendAll(rules, PhaseRules("insertOutboundRules", cfg))
    /\ pc' = NextPhase("insertOutboundRules")
    /\ UNCHANGED <<cfg, dep, commands, idx, submitted, splitVars>>

\* main.go:116, 175-176
executeCommand ==
    /\ pc = "executeCommand"
    /\ commands' = BuildV4(rules)
    /\ idx' = 1
    /\ pc' = "loop"
    /\ UNCHANGED <<cfg, dep, rules, submitted, splitVars>>

\* the loop walking the commands from the last to the first
NextCommand_Reversed(cmds, i) == cmds[Len(cmds) + 1 - i]

\* the command the loop of executeCommand submits in its i-th round, main.go:177
NextCommand(cmds, i) == cmds[i]

\* main.go:178-182
Call(cmd) == [name |-> cmd[1], args |-> IF Len(cmd) > 1 THEN Tail(cmd) ELSE << >>]

\* main.go:177, the range is exhausted and main returns
loopEnd ==
    /\ pc = "loop"
    /\ idx > Len(commands)
    /\ pc' = "done"
    /\ UNCHANGED <<cfg, dep, rules, commands, idx, submitted, splitVars>>

\* StdoutStubDependencies.RunOrFail: renders the command, never fails
RunOrFailStdout ==
    /\ pc = "loop"
    /\ idx <= Len(commands)
    /\ dep = "stdout"
    /\ submitted' = Append(submitted,
                       [backend |-> "stdout", call |-> Call(NextCommand(commands, idx)), ok |-> TRUE])
    /\ idx' = idx + 1
    /\ UNCHANGED <<cfg, dep, rules, commands, pc, splitVars>>

\* RealDependencies.RunOrFail: the command succeeds
RunOrFailReal ==
    /\ pc = "loop"
    /\ idx <= Len(commands)
    /\ dep = "real"
    /\ submitted' = Append(submitted,
                       [backend |-> "real", call |-> Call(NextCommand(commands, idx)), ok |-> TRUE])
    /\ idx' = idx + 1
    /\ UNCHANGED <<cfg, dep, rules, commands, pc, splitVars>>

\* RealDependencies.RunOrFail: the command fails and the process exits
RunOrFailRealErr ==
    /\ pc = "loop"
    /\ idx <= Len(commands)
    /\ dep = "real"
    /\ submitted' = Append(submitted,
                       [backend |-> "real", call |-> Call(NextCommand(commands, idx)), ok |-> FALSE])
    /\ pc' = "fatal"
    /\ UNCHANGED <<cfg, dep, rules, commands, idx, splitVars>>

Next ==
    \/ Run
    \/ RunLookupErr
    \/ run
    \/ insertSkipRules
    \/ insertInboundRules
    \/ insertOutboundRules
    \/ executeCommand
    \/ loopEnd
    \/ RunOrFailStdout
    \/ RunOrFailReal
    \/ RunOrFailRealErr

\* the amesh-iptables process
Spec == Init /\ [][Next]_vars

(***************************************************************************)
(* run called on an iptablesConstructor built by a caller other than       *)
(* newCommand: the identity fields are whatever the caller left in the     *)
(* Configuration, the zero value "" included.                              *)
(***************************************************************************)
Identities == {EmptyString, <<"1", "0", "0">>}

InitEngine ==
    /\ \E dry \in BOOLEAN, uid \in Identities, gid \in Identities :
          \/ \E a \in Strs(MaxEngineTotal) :
             \E b \in Strs(MaxEngineTotal - Len(a)) :
             \E c \in Strs(MaxEngineTotal - Len(a) - Len(b)) :
             \E d \in Strs(MaxEngineTotal - Len(a) - Len(b) - Len(c)) :
                cfg = [Flags(a, b, c, d, dry) EXCEPT !.ProxyUID = uid, !.ProxyGID = gid]
          \/ \E f \in {ScenarioA(dry), ScenarioB(dry)} :
                cfg = [f EXCEPT !.ProxyUID = uid, !.ProxyGID = gid]
    /\ dep = Backend(cfg)
    /\ Idle
    /\ pc = RunOrder[1]
    /\ NoSplitCall

NextEngine ==
    \/ run
    \/ insertSkipRules
    \/ insertInboundRules
    \/ insertOutboundRules
    \/ executeCommand
    \/ loopEnd
    \/ RunOrFailStdout
    \/ RunOrFailReal
    \/ RunOrFailRealErr

SpecEngine == InitEngine /\ [][NextEngine]_vars

(***************************************************************************)
(* split on its own: a string is normalised, the result joined with commas *)
(* and normalised again.                                                   *)
(***************************************************************************)
\* spec.md section 8: "80,,443,"
SplitExample == <<"8", "0", ",", ",", "4", "4", "3", ",">>

InitSplit ==
    /\ cfg = ScenarioA(TRUE)
    /\ dep = "none"
    /\ Idle
    /\ pc = "split"
    /\ splitIn \in Strs(MaxSplitLen) \cup {SplitExample}
    /\ splitOut = << >>
    /\ splitJoined = NoSplit
    /\ splitAgain = << >>

SplitCall ==
    /\ pc = "split"
    /\ splitOut' = split(splitIn)
    /\ pc' = "join"
    /\ UNCHANGED <<cfg, dep, rules, commands, idx, submitted, splitIn, splitJoined, splitAgain>>

JoinCall ==
    /\ pc = "join"
    /\ splitJoined' = Join(splitOut)
    /\ pc' = "resplit"
    /\ UNCHANGED <<cfg, dep, rules, commands, idx, submitted, splitIn, splitOut, splitAgain>>

ResplitCall ==
    /\ pc = "resplit"
    /\ splitAgain' = split(splitJoined)
    /\ pc' = "splitDone"
    /\ UNCHANGED <<cfg, dep, rules, commands, idx, submitted, splitIn, splitOut, splitJoined>>

NextSplit ==
    \/ SplitCall
    \/ JoinCall
    \/ ResplitCall

SpecSplit == InitSplit /\ [][NextSplit]_vars

(***************************************************************************)
(* Vocabulary of the properties.                                           *)
(***************************************************************************)
Rule(chain, params) == [chain |-> chain, table |-> Nat_, params |-> params]

Last(q) == q[Len(q)]

\* the derivation pass is over: run has reached executeCommand
Derived == pc \in {"executeCommand", "loop", "done", "fatal"}

\* insertInboundRules has returned
InboundDone == pc \in {"insertOutboundRules", "executeCommand", "loop", "done", "fatal"}

IsUidSkip(r) ==
    /\ r.chain = OutputChain
    /\ Len(r.params) = 11
    /\ SubSeq(r.params, 1, 8) = <<Lit("-o"), Lit("lo"), Lit("!"), Lit("-d"), Lit("127.0.0.1/32"),
                                  Lit("-m"), Lit("owner"), Lit("--uid-owner")>>
    /\ SubSeq(r.params, 10, 11) = <<Lit("-j"), Lit("RETURN")>>

IsGidSkip(r) ==
    /\ r.chain = OutputChain
    /\ Len(r.params) = 6
    /\ SubSeq(r.params, 1, 3) = <<Lit("-m"), Lit("owner"), Lit("--gid-owner")>>
    /\ SubSeq(r.params, 5, 6) = <<Lit("-j"), Lit("RETURN")>>

\* an OUTPUT rule "--dport <port> -j RETURN", or an OUTPUT jump to APISIX_REDIRECT
IsOutboundCapture(r) ==
    /\ r.chain = OutputChain
    /\ \/ /\ Len(r.params) = 6
          /\ r.params[3] = Lit("--dport")
          /\ r.params[6] = Lit("RETURN")
       \/ Last(r.params) = RedirectChain

OnChain(ch) == SelectSeq(rules, LAMBDA r : r.chain = ch)

DportParams(port, target) == <<Lit("-p"), Lit("tcp"), Lit("--dport"), port, Lit("-j"), target>>

JumpParams(target) == <<Lit("-p"), Lit("tcp"), Lit("-j"), target>>

(***************************************************************************)
(* C1.  In the append order of the builder, both skip rules of             *)
(* insertSkipRules (the uid-owner loopback RETURN and the gid-owner        *)
(* RETURN, on OUTPUT) come before every outbound capture rule of           *)
(* insertOutboundRules; no outbound capture rule precedes a skip rule.     *)
(***************************************************************************)
C1_SkipRulesPrecedeOutbound ==
    \A j \in 1..Len(rules) :
        IsOutboundCapture(rules[j]) =>
            /\ \E i \in 1..(j - 1) : IsUidSkip(rules[i])
            /\ \E i \in 1..(j - 1) : IsGidSkip(rules[i])
            /\ \A i \in (j + 1)..Len(rules) : ~IsUidSkip(rules[i]) /\ ~IsGidSkip(rules[i])

C1_Witness ==
    /\ pc = "done"
    /\ cfg.OutboundPortsInclude = Wildcard
    /\ Len(split(cfg.OutboundPortsExclude)) >= 1
    /\ \E j \in 1..Len(rules) : IsOutboundCapture(rules[j]) /\ Last(rules[j].params) = Lit("RETURN")
    /\ \E j \in 1..Len(rules) : IsOutboundCapture(rules[j]) /\ Last(rules[j].params) = RedirectChain

(***************************************************************************)
(* C2.  run, handed a Configuration whose proxyUID or proxyGID is          *)
(* unresolved (empty), aborts: it appends no skip rule that carries the    *)
(* unresolved identity and submits no command to the backend.              *)
(***************************************************************************)
C2_UnresolvedIdentityAborts ==
    (cfg.ProxyUID = EmptyString \/ cfg.ProxyGID = EmptyString) =>
        /\ submitted = << >>
        /\ \A i \in 1..Len(rules) :
              /\ ~(IsUidSkip(rules[i]) /\ rules[i].params[9] = EmptyString)
              /\ ~(IsGidSkip(rules[i]) /\ rules[i].params[4] = EmptyString)

(***************************************************************************)
(* C3.  With inboundPortsInclude = "*", the rules on APISIX_INBOUND are:   *)
(* first the port-22 RETURN, then one RETURN per token of the normalised   *)
(* inboundPortsExclude in list order, and last the unconditional jump to   *)
(* APISIX_INBOUND_REDIRECT, which occurs exactly once.                     *)
(***************************************************************************)
C3_WildcardInboundOrder ==
    (InboundDone /\ cfg.InboundPortsInclude = Wildcard) =>
        LET in == OnChain(InboundChain)
            ex == split(cfg.InboundPortsExclude)
        IN /\ Len(in) = Len(ex) + 2
           /\ in[1].params = DportParams(SSHPort, Lit("RETURN"))
           /\ \A k \in 1..Len(ex) : in[k + 1].params = DportParams(ex[k], Lit("RETURN"))
           /\ Last(in).params = JumpParams(InboundRedirectChain)
           /\ Cardinality({k \in 1..Len(in) : in[k].params = JumpParams(InboundRedirectChain)}) = 1

C3_Witness ==
    /\ pc = "done"
    /\ cfg.InboundPortsInclude = Wildcard
    /\ Len(split(cfg.InboundPortsExclude)) = 2
    /\ split(cfg.InboundPortsExclude)[1] # split(cfg.InboundPortsExclude)[2]
    /\ Len(OnChain(InboundChain)) = 4

(***************************************************************************)
(* C4.  With an explicit inboundPortsInclude (not empty, not "*") of N     *)
(* tokens, exactly N rules are on APISIX_INBOUND, the i-th matching        *)
(* --dport of the i-th token and jumping to APISIX_INBOUND_REDIRECT; there *)
(* is no port-22 RETURN and no unconditional jump on that chain.           *)
(***************************************************************************)
C4_ExplicitInboundRules ==
    (InboundDone /\ cfg.InboundPortsInclude \notin {EmptyString, Wildcard}) =>
        LET in == OnChain(InboundChain)
            ports == split(cfg.InboundPortsInclude)
        IN /\ Len(in) = Len(ports)
           /\ \A i \in 1..Len(in) : in[i].params = DportParams(ports[i], InboundRedirectChain)
           /\ \A i \in 1..Len(in) :
                 /\ Last(in[i].params) # Lit("RETURN")
                 /\ in[i].params # JumpParams(InboundRedirectChain)

C4_Witness ==
    /\ pc = "done"
    /\ cfg.InboundPortsInclude \notin {EmptyString, Wildcard}
    /\ Len(split(cfg.InboundPortsInclude)) = 2
    /\ split(cfg.InboundPortsInclude)[1] # split(cfg.InboundPortsInclude)[2]
    /\ Len(OnChain(InboundChain)) = 2

(***************************************************************************)
(* C5.  For each direction, a configuration whose include list is not "*"  *)
(* yields the same sequence of rule insertions as every configuration that *)
(* differs from it in that direction's exclude list only.                  *)
(***************************************************************************)
\* the exclude lists that keep the configuration within the size of a run
OtherExcludes(used) == Strs(MaxTotal - used)

C5_ExcludeInertWithoutWildcard ==
    pc = "executeCommand" =>
        /\ cfg.InboundPortsInclude # Wildcard =>
              \A e \in OtherExcludes(Len(cfg.InboundPortsInclude) + Len(cfg.OutboundPortsInclude)
                                      + Len(cfg.OutboundPortsExclude)) :
                  rules = Derive([cfg EXCEPT !.InboundPortsExclude = e])
        /\ cfg.OutboundPortsInclude # Wildcard =>
              \A e \in OtherExcludes(Len(cfg.InboundPortsInclude) + Len(cfg.InboundPortsExclude)
                                      + Len(cfg.OutboundPortsInclude)) :
                  rules = Derive([cfg EXCEPT !.OutboundPortsExclude = e])

C5_Witness ==
    /\ pc = "executeCommand"
    /\ cfg.InboundPortsInclude \notin {EmptyString, Wildcard}
    /\ split(cfg.InboundPortsExclude) # << >>
    /\ cfg.OutboundPortsInclude = EmptyString
    /\ split(cfg.OutboundPortsExclude) # << >>
    /\ Len(rules) > 4

(***************************************************************************)
(* C6.  executeCommand submits the finalised commands one at a time in the *)
(* finalised order; a failed command is the last one submitted and halts   *)
(* the process, and no submitted command removes a rule.                   *)
(***************************************************************************)
Removal == {Lit("-D"), Lit("-F"), Lit("-X"), Lit("-Z")}

C6_InOrderHaltOnFirstFailure ==
    /\ Len(submitted) <= Len(commands)
    /\ \A k \in 1..Len(submitted) :
          /\ <<submitted[k].call.name>> \o submitted[k].call.args = commands[k]
          /\ \A a \in 1..Len(submitted[k].call.args) : submitted[k].call.args[a] \notin Removal
          /\ ~submitted[k].ok => (k = Len(submitted) /\ pc = "fatal")
    /\ pc = "loop" => idx = Len(submitted) + 1
    /\ pc = "done" => Len(submitted) = Len(commands)
    /\ pc = "fatal" => (submitted # << >> /\ ~Last(submitted).ok)

C6_Witness ==
    /\ pc = "fatal"
    /\ Len(submitted) = 3
    /\ Len(commands) >= 7
    /\ commands[1] # commands[2]

(***************************************************************************)
(* C7.  Under --dry-run the real backend is never invoked: the backend is  *)
(* the stdout stub and every submitted command went to it.                 *)
(***************************************************************************)
C7_DryRunNeverReal ==
    cfg.DryRun =>
        /\ dep # "real"
        /\ \A k \in 1..Len(submitted) : submitted[k].backend = "stdout"

C7_Witness ==
    /\ cfg.DryRun
    /\ pc = "done"
    /\ Len(submitted) >= 6
    /\ cfg.InboundPortsInclude # EmptyString
    /\ cfg.OutboundPortsInclude # EmptyString

(***************************************************************************)
(* C8.  The rule insertions of one run are, in order and with nothing in   *)
(* between: the APISIX_REDIRECT baseline (REDIRECT to proxyPort), the      *)
(* APISIX_INBOUND_REDIRECT baseline (REDIRECT to inboundCapturePort), the  *)
(* uid-loopback skip, the gid skip, the inbound rules (the PREROUTING jump *)
(* first), the outbound rules.  Scenario A gives exactly eight rules.      *)
(***************************************************************************)
RedirectParams(port) ==
    <<Lit("-p"), Lit("tcp"), Lit("-j"), Lit("REDIRECT"), Lit("--to-ports"), port>>

UidSkipParams(uid) ==
    <<Lit("-o"), Lit("lo"), Lit("!"), Lit("-d"), Lit("127.0.0.1/32"), Lit("-m"), Lit("owner"),
      Lit("--uid-owner"), uid, Lit("-j"), Lit("RETURN")>>

GidSkipParams(gid) == <<Lit("-m"), Lit("owner"), Lit("--gid-owner"), gid, Lit("-j"), Lit("RETURN")>>

IsInboundRule(r) == r.chain \in {PreRoutingChain, InboundChain}

IsOutboundRule(r) == r.chain = OutputChain /\ r.params[1] = Lit("-p")

ScenarioARules ==
    << Rule(RedirectChain, RedirectParams(<<"9", "0", "8", "0">>)),
       Rule(InboundRedirectChain, RedirectParams(<<"9", "0", "8", "1">>)),
       Rule(OutputChain, UidSkipParams(<<"1", "0", "0">>)),
       Rule(OutputChain, GidSkipParams(<<"1", "0", "0">>)),
       Rule(PreRoutingChain, JumpParams(InboundChain)),
       Rule(InboundChain, DportParams(<<"2", "2">>, Lit("RETURN"))),
       Rule(InboundChain, DportParams(<<"9", "0", "8", "1">>, Lit("RETURN"))),
       Rule(InboundChain, JumpParams(InboundRedirectChain)) >>

IsScenarioA ==
    /\ cfg.InboundCapturePort = <<"9", "0", "8", "1">>
    /\ cfg.ProxyPort = <<"9", "0", "8", "0">>
    /\ cfg.InboundPortsInclude = Wildcard
    /\ cfg.InboundPortsExclude = <<"9", "0", "8", "1">>
    /\ cfg.OutboundPortsInclude = EmptyString
    /\ cfg.ProxyUID = <<"1", "0", "0">>
    /\ cfg.ProxyGID = <<"1", "0", "0">>

C8_FourPhaseSequence ==
    Derived =>
        /\ Len(rules) >= 4
        /\ rules[1] = Rule(RedirectChain, RedirectParams(cfg.ProxyPort))
        /\ rules[2] = Rule(InboundRedirectChain, RedirectParams(cfg.InboundCapturePort))
        /\ rules[3] = Rule(OutputChain, UidSkipParams(cfg.ProxyUID))
        /\ rules[4] = Rule(OutputChain, GidSkipParams(cfg.ProxyGID))
        /\ \A i \in 5..Len(rules) : IsInboundRule(rules[i]) \/ IsOutboundRule(rules[i])
        /\ \A i, j \in 5..Len(rules) :
              (IsOutboundRule(rules[i]) /\ IsInboundRule(rules[j])) => j < i
        /\ \A i \in 5..Len(rules) :
              rules[i].chain = PreRoutingChain <=>
                  (i = 5 /\ cfg.InboundPortsInclude # EmptyString)
        /\ Len(rules) >= 5 /\ cfg.InboundPortsInclude # EmptyString =>
              rules[5] = Rule(PreRoutingChain, JumpParams(InboundChain))
        /\ cfg.InboundPortsInclude = EmptyString =>
              \A i \in 5..Len(rules) : ~IsInboundRule(rules[i])
        /\ cfg.OutboundPortsInclude = EmptyString =>
              \A i \in 5..Len(rules) : ~IsOutboundRule(rules[i])
        /\ IsScenarioA => rules = ScenarioARules

C8_Witness ==
    /\ pc = "done"
    /\ IsScenarioA
    /\ Len(rules) = 8
    /\ Len(submitted) = 8

(***************************************************************************)
(* C9.  split returns exactly the maximal comma-free runs of its input, in *)
(* their order ("" gives the empty sequence, "80,,443," gives 80 then      *)
(* 443), and splitting the comma-join of a result returns that result.     *)
(***************************************************************************)
TokenStarts(s) == {i \in 1..Len(s) : s[i] # Comma /\ (i = 1 \/ s[i - 1] = Comma)}

TokenEnd(s, i) ==
    CHOOSE j \in i..Len(s) :
        /\ \A k \in i..j : s[k] # Comma
        /\ j = Len(s) \/ s[j + 1] = Comma

C9_SplitOrderPreservingIdempotent ==
    /\ pc \in {"join", "resplit", "splitDone"} =>
          /\ Len(splitOut) = Cardinality(TokenStarts(splitIn))
          /\ \A i \in TokenStarts(splitIn) :
                splitOut[Cardinality({h \in TokenStarts(splitIn) : h <= i})]
                    = SubSeq(splitIn, i, TokenEnd(splitIn, i))
          /\ splitIn = EmptyString => splitOut = << >>
          /\ splitIn = SplitExample => splitOut = << <<"8", "0">>, <<"4", "4", "3">> >>
    /\ pc = "splitDone" => splitAgain = splitOut

C9_Witness ==
    /\ pc = "splitDone"
    /\ splitIn = SplitExample
    /\ Len(splitOut) = 2
    /\ splitJoined # splitIn

(***************************************************************************)
(* C10.  With outboundPortsInclude = "*", the outbound rules on OUTPUT are *)
(* one "--dport <port> -j RETURN" per token of the normalised              *)
(* outboundPortsExclude, in list order, then exactly one unconditional TCP *)
(* jump to APISIX_REDIRECT, which is the last rule of the run.             *)
(***************************************************************************)
C10_WildcardOutboundOrder ==
    (Derived /\ cfg.OutboundPortsInclude = Wildcard) =>
        LET out == SelectSeq(rules, IsOutboundRule)
            ex == split(cfg.OutboundPortsExclude)
        IN /\ Len(out) = Len(ex) + 1
           /\ \A k \in 1..Len(ex) : out[k] = Rule(OutputChain, DportParams(ex[k], Lit("RETURN")))
           /\ Last(out) = Rule(OutputChain, JumpParams(RedirectChain))
           /\ Last(rules) = Rule(OutputChain, JumpParams(RedirectChain))
           /\ Cardinality({k \in 1..Len(rules) :
                             rules[k] = Rule(OutputChain, JumpParams(RedirectChain))}) = 1

C10_Witness ==
    /\ pc = "done"
    /\ cfg.OutboundPortsInclude = Wildcard
    /\ Len(split(cfg.OutboundPortsExclude)) = 2
    /\ split(cfg.OutboundPortsExclude)[1] # split(cfg.OutboundPortsExclude)[2]
    /\ Len(SelectSeq(rules, IsOutboundRule)) = 3

====
